---- MODULE Spec2Model ----
(***************************************************************************)
(* Model of the request-handling layer of the harassment / misogyny        *)
(* detector API: src/api/routes.py (module-level `predictor`,              *)
(* initialize_predictor and the Flask handlers) and src/api/app.py (main). *)
(* The predictor itself (api.predictor) is not part of the sources at      *)
(* hand; its observable behaviour is modelled from the design document.    *)
(* Scores are probabilities in percent (0..100).                           *)
(***************************************************************************)
EXTENDS Integers, Sequences, FiniteSets, TLC

(* ---------------------------------------------------------------------- *)
(* Bounds of the model                                                     *)
(* ---------------------------------------------------------------------- *)
MaxSmall == 3      \* short batches have 0..MaxSmall items
MaxOver == 1       \* long batches have MaxBatch..MaxBatch+MaxOver items
MaxRot == 1        \* rotations of the text pattern that fills a batch

(* ---------------------------------------------------------------------- *)
(* Program constants                                                       *)
(* ---------------------------------------------------------------------- *)
MaxBatch == 100           \* routes.py:161  len(texts) > 100
ThresholdLo == 0          \* routes.py:242  0 <= threshold
ThresholdHi == 100        \* routes.py:242  threshold <= 1   (percent)
DefaultThreshold == 50    \* routes.py:234  data.get('threshold', 0.5)

FilterTypes == {"all", "harassment", "misogyny"}      \* routes.py:247

(* ---------------------------------------------------------------------- *)
(* JSON values carried by requests                                         *)
(* A string is a sequence of characters; a non-string item is tagged.      *)
(* ---------------------------------------------------------------------- *)
Str(s) == [kind |-> "str", val |-> s]
NonStr == [kind |-> "num", val |-> <<"4", "2">>]

IsSpace(c) == c \in {" ", "\t", "\n"}

RECURSIVE LStrip(_)
LStrip(s) == IF s = <<>> THEN <<>>
             ELSE IF IsSpace(Head(s)) THEN LStrip(Tail(s)) ELSE s

RECURSIVE RStrip(_)
RStrip(s) == IF s = <<>> THEN <<>>
             ELSE IF IsSpace(s[Len(s)]) THEN RStrip(SubSeq(s, 1, Len(s) - 1)) ELSE s

\* str.strip()
Strip(s) == RStrip(LStrip(s))

\* Variant: the length test without strip().
InvalidTextNoStrip(item) == item.kind # "str" \/ Len(item.val) = 0

\* not isinstance(text, str) or len(text.strip()) == 0
InvalidText(item) == item.kind # "str" \/ Len(Strip(item.val)) = 0

ValidTexts == << Str(<<"a">>), Str(<<"b">>), Str(<<"a", "b">>),
                 Str(<<" ", "c", " ">>), Str(<<"c">>) >>
BadItems == { Str(<<>>), Str(<<" ", "\t">>), NonStr }

\* A batch of n items filled with valid texts, item badPos (if any) replaced.
TextsOf(n, rot, badPos, badItem) ==
    [i \in 1..n |-> IF i = badPos THEN badItem
                    ELSE ValidTexts[((i + rot) % Len(ValidTexts)) + 1]]

Lens == (0..MaxSmall) \cup (MaxBatch..(MaxBatch + MaxOver))
BadPositions(n) == IF n = 0 THEN {} ELSE {1, n}

\* Batches of valid texts only.
CleanLists == { TextsOf(n, rot, 0, NonStr) : n \in 0..MaxSmall, rot \in 0..MaxRot }
              \cup { TextsOf(n, 0, 0, NonStr) : n \in MaxBatch..(MaxBatch + MaxOver) }

\* Batches with one empty, whitespace-only or non-string item.
DirtyLists == UNION { { TextsOf(n, 0, p, b) : p \in BadPositions(n), b \in BadItems }
                      : n \in Lens }

\* A few batches, for the requests whose threshold or criterion is invalid.
ProbeLists == { TextsOf(n, 0, 0, NonStr) : n \in {MaxSmall, MaxBatch + MaxOver} }
              \cup { TextsOf(MaxSmall, 0, 1, Str(<<" ", "\t">>)) }

ValidThresholds == { [kind |-> "num", val |-> v] : v \in {0, 50, 100} }
Thresholds == ValidThresholds
              \cup { [kind |-> "num", val |-> v] : v \in {-1, 101} }
              \cup { [kind |-> "str", val |-> 0] }
FilterTypeInputs == FilterTypes \cup {"bogus"}

(* ---------------------------------------------------------------------- *)
(* The predictor (api.predictor), modelled from the design document        *)
(* ---------------------------------------------------------------------- *)
NoPredictor == [present |-> FALSE, harassment |-> "none", misogyny |-> "none",
                models_loaded |-> FALSE]

\* A predictor object under construction: no adapter loaded yet.
NewPredictor == [present |-> TRUE, harassment |-> "pending", misogyny |-> "pending",
                 models_loaded |-> FALSE]

AdapterOutcomes == {"loaded", "failed"}

\* Construction has finished: both adapter loads were attempted.
Constructed(p) == p.present /\ p.harassment # "pending" /\ p.misogyny # "pending"

\* models_loaded is set only when both adapters loaded.
Finish(p) == [p EXCEPT !.models_loaded = (p.harassment = "loaded" /\ p.misogyny = "loaded")]

Contains(s, c) == \E i \in 1..Len(s) : s[i] = c

\* Deterministic stub adapters: probability (percent) of each category.
HarassmentScore(t) == IF Contains(t, "a") THEN 100 ELSE 0
MisogynyScore(t) == IF Contains(t, "b") THEN 100 ELSE 0

\* combined = 0.5 * harassment + 0.5 * misogyny
Combined(h, m) == (h + m) \div 2

RiskLevel(c) == IF c < 25 THEN "low"
                ELSE IF c < 50 THEN "medium"
                ELSE IF c < 75 THEN "high" ELSE "critical"

ScoreResult(item) ==
    LET h == HarassmentScore(item.val)
        m == MisogynyScore(item.val)
        c == Combined(h, m)
    IN [text |-> item.val, harassment_score |-> h, misogyny_score |-> m,
        combined_toxicity_score |-> c,
        is_harassment |-> (h >= 50), is_misogyny |-> (m >= 50),
        is_toxic |-> (c >= 50), risk_level |-> RiskLevel(c)]

\* predict_batch: one result per text, in input order.
PredictBatch(texts) == [i \in 1..Len(texts) |-> ScoreResult(texts[i])]

\* get_batch_statistics: pure aggregation over the results.
BatchStatistics(results) ==
    [total_comments |-> Len(results),
     toxic_comments |-> Cardinality({ i \in 1..Len(results) : results[i].is_toxic }),
     harassment_count |-> Cardinality({ i \in 1..Len(results) : results[i].is_harassment }),
     misogyny_count |-> Cardinality({ i \in 1..Len(results) : results[i].is_misogyny })]

\* The engine does not accept a non-string, empty or whitespace-only text.
Scorable(item) == item.kind = "str" /\ \E i \in 1..Len(item.val) : ~IsSpace(item.val[i])

\* Outcomes of a predictor call: it returns ("ok") or raises the named error.
SingleOutcomes(p, item) ==
    IF ~p.models_loaded THEN {"ModelUnavailableError"}
    ELSE IF ~Scorable(item) THEN {"ValidationError"}
    ELSE {"ok", "InferenceError"}

BatchOutcomes(p, texts) ==
    IF ~p.models_loaded THEN {"ModelUnavailableError"}
    ELSE IF Len(texts) > 100 \/ \E i \in 1..Len(texts) : ~Scorable(texts[i])
         THEN {"ValidationError"}
    ELSE {"ok", "InferenceError"}

StatisticsOutcomes == {"ok", "InferenceError"}

(* ---------------------------------------------------------------------- *)
(* Responses: (jsonify(body), status).  keys is the set of keys of body;   *)
(* optional parts of the body are sequences of length 0 or 1.              *)
(* ---------------------------------------------------------------------- *)
NoResponse ==
    [endpoint |-> "none", status |-> 0, keys |-> {}, error |-> "", error_index |-> -1,
     result |-> <<>>, results |-> <<>>, statistics |-> <<>>, filtered_results |-> <<>>,
     total_comments |-> -1, toxic_comments |-> -1, ready |-> FALSE]

ErrorResponse(ep, status, msg, idx, rdy) ==
    [NoResponse EXCEPT !.endpoint = ep, !.status = status, !.keys = {"error"},
                       !.error = msg, !.error_index = idx, !.ready = rdy]

\* Variant: the failure is swallowed into an empty success.
DefaultScoreResponse(ep, exc, rdy) ==
    [NoResponse EXCEPT !.endpoint = ep, !.status = 200, !.keys = {"results"}, !.ready = rdy]

\* except Exception as e: {'error': str(e), 'traceback': ...}, 500
ExceptionResponse(ep, exc, rdy) ==
    [NoResponse EXCEPT !.endpoint = ep, !.status = 500, !.keys = {"error", "traceback"},
                       !.error = exc, !.ready = rdy]

\* Value reported by health_check as models_loaded.
Ready(p) == p.present /\ p.models_loaded

\* Index (zero-based) of the first invalid item, or -1.
FirstInvalid(texts) ==
    IF \E i \in 1..Len(texts) : InvalidText(texts[i])
    THEN (CHOOSE i \in 1..Len(texts) :
             /\ InvalidText(texts[i])
             /\ \A j \in 1..(i - 1) : ~InvalidText(texts[j])) - 1
    ELSE -1

(* analyze_single, up to the predictor call: the rejection, or status 0. *)
SingleReject(p, data) ==
    IF ~p.present
    THEN ErrorResponse("analyze", 503,
             "Models not initialized. Please ensure models are trained and available.",
             -1, Ready(p))
    ELSE IF ~data.has
    THEN ErrorResponse("analyze", 400, "Missing required field: text", -1, Ready(p))
    ELSE IF InvalidText(data.text)
    THEN ErrorResponse("analyze", 400, "Text must be a non-empty string", -1, Ready(p))
    ELSE NoResponse

\* Variant: the cap compared with >=.
TooManyOffByOne(texts) == Len(texts) >= MaxBatch

\* len(texts) > 100
TooMany(texts) == Len(texts) > MaxBatch

(* analyze_batch, up to the predictor call. *)
BatchReject(p, data) ==
    IF ~p.present
    THEN ErrorResponse("batch", 503,
             "Models not initialized. Please ensure models are trained and available.",
             -1, Ready(p))
    ELSE IF ~data.has
    THEN ErrorResponse("batch", 400, "Missing required field: texts", -1, Ready(p))
    ELSE IF ~data.is_list
    THEN ErrorResponse("batch", 400, "texts must be a list of strings", -1, Ready(p))
    ELSE IF Len(data.texts) = 0
    THEN ErrorResponse("batch", 400, "texts list cannot be empty", -1, Ready(p))
    ELSE IF TooMany(data.texts)
    THEN ErrorResponse("batch", 400, "Maximum 100 texts allowed per batch request",
                       -1, Ready(p))
    ELSE IF FirstInvalid(data.texts) # -1
    THEN ErrorResponse("batch", 400, "Text at index i is invalid (must be non-empty string)",
                       FirstInvalid(data.texts), Ready(p))
    ELSE NoResponse

\* Variant: only the upper end is tested.
ThresholdInRangeUpperOnly(t) == t <= ThresholdHi

\* 0 <= threshold <= 1
ThresholdInRange(t) == ThresholdLo <= t /\ t <= ThresholdHi

(* filter_toxic_comments, up to the predictor call.  Comparing a threshold *)
(* that is not a number raises TypeError, which the handler turns into 500. *)
FilterReject(p, data) ==
    IF ~p.present
    THEN ErrorResponse("filter", 503, "Models not initialized", -1, Ready(p))
    ELSE IF ~data.has
    THEN ErrorResponse("filter", 400, "Missing required field: texts", -1, Ready(p))
    ELSE IF ~data.is_list \/ Len(data.texts) = 0
    THEN ErrorResponse("filter", 400, "texts must be a non-empty list", -1, Ready(p))
    ELSE IF data.threshold.kind # "num"
    THEN ExceptionResponse("filter", "TypeError", Ready(p))
    ELSE IF ~ThresholdInRange(data.threshold.val)
    THEN ErrorResponse("filter", 400, "threshold must be between 0 and 1", -1, Ready(p))
    ELSE IF data.filter_type \notin FilterTypes
    THEN ErrorResponse("filter", 400,
             "filter_type must be one of: all, harassment, misogyny", -1, Ready(p))
    ELSE NoResponse

\* The score the criterion selects (routes.py 260-265).
ChosenScore(r, filter_type) ==
    IF filter_type = "all" THEN r.combined_toxicity_score
    ELSE IF filter_type = "harassment" THEN r.harassment_score
    ELSE r.misogyny_score

\* Variant: strict comparison.
IsToxicStrict(r, filter_type, threshold) == ChosenScore(r, filter_type) > threshold

\* is_toxic = result[...] >= threshold
IsToxic(r, filter_type, threshold) == ChosenScore(r, filter_type) >= threshold

\* Variant: one-based index.
WithIndexOneBased(r, i) ==
    [index |-> i + 1, text |-> r.text, harassment_score |-> r.harassment_score,
     misogyny_score |-> r.misogyny_score,
     combined_toxicity_score |-> r.combined_toxicity_score,
     is_harassment |-> r.is_harassment, is_misogyny |-> r.is_misogyny,
     is_toxic |-> r.is_toxic, risk_level |-> r.risk_level]

\* result['index'] = i
WithIndex(r, i) ==
    [index |-> i, text |-> r.text, harassment_score |-> r.harassment_score,
     misogyny_score |-> r.misogyny_score,
     combined_toxicity_score |-> r.combined_toxicity_score,
     is_harassment |-> r.is_harassment, is_misogyny |-> r.is_misogyny,
     is_toxic |-> r.is_toxic, risk_level |-> r.risk_level]

\* The loop of routes.py 256-269 over results[lo..hi], in order of i; the
\* enumerate index i is zero-based.  The range is split in halves so that the
\* evaluation depth stays logarithmic in the batch size.
RECURSIVE FilterLoop(_, _, _, _, _)
FilterLoop(results, lo, hi, filter_type, threshold) ==
    IF lo > hi THEN <<>>
    ELSE IF lo = hi
    THEN IF IsToxic(results[lo], filter_type, threshold)
         THEN << WithIndex(results[lo], lo - 1) >>
         ELSE <<>>
    ELSE LET mid == (lo + hi) \div 2
         IN FilterLoop(results, lo, mid, filter_type, threshold)
            \o FilterLoop(results, mid + 1, hi, filter_type, threshold)

SingleResponse(r, rdy) ==
    [NoResponse EXCEPT !.endpoint = "analyze", !.status = 200,
                       !.keys = DOMAIN r, !.result = <<r>>, !.ready = rdy]

BatchResponse(results, stats, rdy) ==
    [NoResponse EXCEPT !.endpoint = "batch", !.status = 200,
                       !.keys = {"results"} \cup (IF stats = <<>> THEN {} ELSE {"statistics"}),
                       !.results = results, !.statistics = stats, !.ready = rdy]

FilterResponse(texts, filtered, rdy) ==
    [NoResponse EXCEPT !.endpoint = "filter", !.status = 200,
                       !.keys = {"total_comments", "toxic_comments", "threshold",
                                 "filter_type", "filtered_results"},
                       !.filtered_results = filtered,
                       !.total_comments = Len(texts),
                       !.toxic_comments = Len(filtered), !.ready = rdy]

(* ---------------------------------------------------------------------- *)
(* Request inputs                                                          *)
(* ---------------------------------------------------------------------- *)
SingleInputs ==
    { [has |-> FALSE, text |-> NonStr] }
    \cup { [has |-> TRUE, text |-> t] :
              t \in { ValidTexts[i] : i \in 1..Len(ValidTexts) } \cup BadItems }

BatchInputs ==
    { [has |-> FALSE, is_list |-> FALSE, texts |-> <<>>, include_statistics |-> FALSE],
      [has |-> TRUE, is_list |-> FALSE, texts |-> <<>>, include_statistics |-> FALSE] }
    \cup { [has |-> TRUE, is_list |-> TRUE, texts |-> t, include_statistics |-> b] :
              t \in CleanLists, b \in BOOLEAN }
    \cup { [has |-> TRUE, is_list |-> TRUE, texts |-> t, include_statistics |-> FALSE] :
              t \in DirtyLists }

FilterInputs ==
    { [has |-> h, is_list |-> FALSE, texts |-> <<>>,
       threshold |-> [kind |-> "num", val |-> DefaultThreshold], filter_type |-> "all"] :
          h \in BOOLEAN }
    \cup { [has |-> TRUE, is_list |-> TRUE, texts |-> t, threshold |-> th, filter_type |-> f] :
              t \in CleanLists, th \in ValidThresholds, f \in FilterTypes }
    \cup { [has |-> TRUE, is_list |-> TRUE, texts |-> t,
            threshold |-> [kind |-> "num", val |-> DefaultThreshold], filter_type |-> "all"] :
              t \in DirtyLists }
    \cup { [has |-> TRUE, is_list |-> TRUE, texts |-> t, threshold |-> th, filter_type |-> f] :
              t \in ProbeLists, th \in Thresholds, f \in FilterTypeInputs }

(* ---------------------------------------------------------------------- *)
(* State                                                                   *)
(* ---------------------------------------------------------------------- *)
VARIABLES
    predictor,    \* routes.py: module-level `predictor`
    initPc,       \* position inside initialize_predictor / get_predictor
    building,     \* the predictor object get_predictor is constructing
    initResult,   \* last return value of initialize_predictor: "none", "true", "false"
    initRaised,   \* whether get_predictor raised in the last initialize_predictor
    mainPc,       \* app.py: position inside main(); "imported" when main is not run
    appCreated,   \* app.py: create_app() has been called
    req,          \* the request being handled
    resp,         \* the response to the last request
    calls         \* predictor calls made for the last request, in order

vars == <<predictor, initPc, building, initResult, initRaised, mainPc, appCreated,
          req, resp, calls>>

\* initialized is what the handler's entry test `predictor is None` found.
IdleRequest ==
    [pc |-> "idle", endpoint |-> "none", data |-> [has |-> FALSE],
     initialized |-> FALSE]

TypeOK ==
    /\ predictor.present \in BOOLEAN
    /\ initPc \in {"idle", "harassment", "misogyny", "return"}
    /\ initResult \in {"none", "true", "false"}
    /\ initRaised \in BOOLEAN
    /\ mainPc \in {"imported", "start", "initializing", "returned", "create_app",
                   "run", "serving"}
    /\ appCreated \in BOOLEAN
    /\ req.pc \in {"idle", "call", "done"}
    /\ resp.status \in {0, 200, 400, 500, 503}
    /\ Len(calls) <= 2

\* The blueprint is imported and mounted by a host application.
Init ==
    /\ predictor = NoPredictor
    /\ initPc = "idle"
    /\ building = NoPredictor
    /\ initResult = "none"
    /\ initRaised = FALSE
    /\ mainPc = "imported"
    /\ appCreated = FALSE
    /\ req = IdleRequest
    /\ resp = NoResponse
    /\ calls = <<>>

\* The process is started through main().
InitMain ==
    /\ predictor = NoPredictor
    /\ initPc = "idle"
    /\ building = NoPredictor
    /\ initResult = "none"
    /\ initRaised = FALSE
    /\ mainPc = "start"
    /\ appCreated = FALSE
    /\ req = IdleRequest
    /\ resp = NoResponse
    /\ calls = <<>>

(* ---------------------------------------------------------------------- *)
(* initialize_predictor                                                    *)
(* ---------------------------------------------------------------------- *)
\* Variant: the global is assigned whether or not get_predictor returned.
PredictorAfterInitAlways(cur, built, raised) == built

\* `predictor = get_predictor()` assigns only when get_predictor returned.
PredictorAfterInit(cur, built, raised) == IF raised THEN cur ELSE built

\* return True / except Exception: return False
InitializeReturnValue(raised) == IF raised THEN "false" ELSE "true"

\* A host calls initialize_predictor (first load or a repeated call).
InitializePredictorCall ==
    /\ mainPc = "imported"
    /\ initPc = "idle"
    /\ initPc' = "harassment"
    /\ building' = NewPredictor
    /\ UNCHANGED <<predictor, initResult, initRaised, mainPc, appCreated, req, resp, calls>>

\* get_predictor loads the harassment adapter.
GetPredictorLoadHarassment(outcome) ==
    /\ initPc = "harassment"
    /\ building' = [building EXCEPT !.harassment = outcome]
    /\ initPc' = "misogyny"
    /\ UNCHANGED <<predictor, initResult, initRaised, mainPc, appCreated, req, resp, calls>>

\* get_predictor loads the misogyny adapter.
GetPredictorLoadMisogyny(outcome) ==
    /\ initPc = "misogyny"
    /\ building' = [building EXCEPT !.misogyny = outcome]
    /\ initPc' = "return"
    /\ UNCHANGED <<predictor, initResult, initRaised, mainPc, appCreated, req, resp, calls>>

\* get_predictor returns the constructed object; it is assigned to the global.
InitializePredictorReturn ==
    /\ initPc = "return"
    /\ predictor' = PredictorAfterInit(predictor, Finish(building), FALSE)
    /\ initResult' = InitializeReturnValue(FALSE)
    /\ initRaised' = FALSE
    /\ initPc' = "idle"
    /\ building' = NoPredictor
    /\ UNCHANGED <<mainPc, appCreated, req, resp, calls>>

\* get_predictor raises (at any point of the load); the except branch runs.
InitializePredictorExcept ==
    /\ initPc # "idle"
    /\ predictor' = PredictorAfterInit(predictor, building, TRUE)
    /\ initResult' = InitializeReturnValue(TRUE)
    /\ initRaised' = TRUE
    /\ initPc' = "idle"
    /\ building' = NoPredictor
    /\ UNCHANGED <<mainPc, appCreated, req, resp, calls>>

(* ---------------------------------------------------------------------- *)
(* main()                                                                  *)
(* ---------------------------------------------------------------------- *)
\* Variant: main goes on whatever initialize_predictor returned.
MainProceedsAlways(result) == TRUE

\* if not initialize_predictor(): return
MainProceeds(result) == result = "true"

MainInitialize ==
    /\ mainPc = "start"
    /\ mainPc' = "initializing"
    /\ initPc' = "harassment"
    /\ building' = NewPredictor
    /\ UNCHANGED <<predictor, initResult, initRaised, appCreated, req, resp, calls>>

MainAfterInitialize ==
    /\ mainPc = "initializing"
    /\ initPc = "idle"
    /\ mainPc' = IF MainProceeds(initResult) THEN "create_app" ELSE "returned"
    /\ UNCHANGED <<predictor, initPc, building, initResult, initRaised, appCreated,
                   req, resp, calls>>

MainCreateApp ==
    /\ mainPc = "create_app"
    /\ appCreated' = TRUE
    /\ mainPc' = "run"
    /\ UNCHANGED <<predictor, initPc, building, initResult, initRaised, req, resp, calls>>

MainRun ==
    /\ mainPc = "run"
    /\ mainPc' = "serving"
    /\ UNCHANGED <<predictor, initPc, building, initResult, initRaised, appCreated,
                   req, resp, calls>>

\* Requests reach the handlers once an application serves the blueprint.
Serving == mainPc \in {"imported", "serving"}

(* ---------------------------------------------------------------------- *)
(* Handlers.  A handler first reads the global and validates the request   *)
(* (Enter); if nothing rejects it, it then calls the predictor through the *)
(* global and answers (Call).  initialize_predictor may run in between.    *)
(* ---------------------------------------------------------------------- *)
Invocation(fn, texts, p, outcome) ==
    [fn |-> fn, texts |-> texts, ready |-> Ready(p), outcome |-> outcome]

\* The client receives the pending response.
ClientReceives ==
    /\ req.pc = "done"
    /\ req' = IdleRequest
    /\ resp' = NoResponse
    /\ calls' = <<>>
    /\ UNCHANGED <<predictor, initPc, building, initResult, initRaised, mainPc, appCreated>>

\* GET /health
HealthCheck ==
    /\ Serving
    /\ req.pc = "idle"
    /\ req' = [IdleRequest EXCEPT !.pc = "done", !.endpoint = "health",
                                  !.initialized = predictor.present]
    /\ resp' = [NoResponse EXCEPT !.endpoint = "health", !.status = 200,
                                  !.keys = {"status", "models_loaded"},
                                  !.ready = Ready(predictor)]
    /\ calls' = <<>>
    /\ UNCHANGED <<predictor, initPc, building, initResult, initRaised, mainPc, appCreated>>

\* Common shape of the first half of a handler.
Enter(ep, data, rejection) ==
    /\ Serving
    /\ req.pc = "idle"
    /\ calls' = <<>>
    /\ resp' = rejection
    /\ req' = [pc |-> IF rejection.status # 0 THEN "done" ELSE "call",
               endpoint |-> ep, data |-> data, initialized |-> predictor.present]
    /\ UNCHANGED <<predictor, initPc, building, initResult, initRaised, mainPc, appCreated>>

\* POST /analyze, lines 73-92
AnalyzeSingleEnter(data) == Enter("analyze", data, SingleReject(predictor, data))

\* POST /analyze, lines 95-103
AnalyzeSingleCall(outcome) ==
    /\ req.pc = "call" /\ req.endpoint = "analyze"
    /\ IF ~predictor.present
       THEN /\ calls' = calls
            /\ resp' = ExceptionResponse("analyze", "AttributeError", Ready(predictor))
       ELSE /\ outcome \in SingleOutcomes(predictor, req.data.text)
            /\ calls' = Append(calls, Invocation("predict_single", <<req.data.text>>,
                                                 predictor, outcome))
            /\ resp' = IF outcome = "ok"
                       THEN SingleResponse(ScoreResult(req.data.text), Ready(predictor))
                       ELSE ExceptionResponse("analyze", outcome, Ready(predictor))
    /\ req' = [req EXCEPT !.pc = "done"]
    /\ UNCHANGED <<predictor, initPc, building, initResult, initRaised, mainPc, appCreated>>

\* POST /analyze/batch, lines 134-171
AnalyzeBatchEnter(data) == Enter("batch", data, BatchReject(predictor, data))

\* POST /analyze/batch, lines 174-191
AnalyzeBatchCall(outcome, statsOutcome) ==
    /\ req.pc = "call" /\ req.endpoint = "batch"
    /\ IF ~predictor.present
       THEN /\ calls' = calls
            /\ resp' = ExceptionResponse("batch", "AttributeError", Ready(predictor))
       ELSE /\ outcome \in BatchOutcomes(predictor, req.data.texts)
            /\ statsOutcome \in StatisticsOutcomes
            /\ LET first == Append(calls, Invocation("predict_batch", req.data.texts,
                                                     predictor, outcome))
                   results == PredictBatch(req.data.texts)
               IN IF outcome # "ok"
                  THEN /\ calls' = first
                       /\ resp' = ExceptionResponse("batch", outcome, Ready(predictor))
                  ELSE IF ~req.data.include_statistics
                  THEN /\ calls' = first
                       /\ resp' = BatchResponse(results, <<>>, Ready(predictor))
                  ELSE /\ calls' = Append(first,
                                      Invocation("get_batch_statistics", <<>>, predictor,
                                                 statsOutcome))
                       /\ resp' = IF statsOutcome = "ok"
                                  THEN BatchResponse(results, <<BatchStatistics(results)>>,
                                                     Ready(predictor))
                                  ELSE ExceptionResponse("batch", statsOutcome,
                                                         Ready(predictor))
    /\ req' = [req EXCEPT !.pc = "done"]
    /\ UNCHANGED <<predictor, initPc, building, initResult, initRaised, mainPc, appCreated>>

\* POST /analyze/filter, lines 220-250
FilterEnter(data) == Enter("filter", data, FilterReject(predictor, data))

\* POST /analyze/filter, lines 253-283
FilterCall(outcome) ==
    /\ req.pc = "call" /\ req.endpoint = "filter"
    /\ IF ~predictor.present
       THEN /\ calls' = calls
            /\ resp' = ExceptionResponse("filter", "AttributeError", Ready(predictor))
       ELSE /\ outcome \in BatchOutcomes(predictor, req.data.texts)
            /\ calls' = Append(calls, Invocation("predict_batch", req.data.texts,
                                                 predictor, outcome))
            /\ resp' = IF outcome = "ok"
                       THEN LET results == PredictBatch(req.data.texts)
                            IN FilterResponse(req.data.texts,
                                   FilterLoop(results, 1, Len(results),
                                              req.data.filter_type,
                                              req.data.threshold.val),
                                   Ready(predictor))
                       ELSE ExceptionResponse("filter", outcome, Ready(predictor))
    /\ req' = [req EXCEPT !.pc = "done"]
    /\ UNCHANGED <<predictor, initPc, building, initResult, initRaised, mainPc, appCreated>>

AllOutcomes == {"ok", "InferenceError", "ValidationError", "ModelUnavailableError"}

Next ==
    \/ InitializePredictorCall
    \/ \E o \in AdapterOutcomes : GetPredictorLoadHarassment(o)
    \/ \E o \in AdapterOutcomes : GetPredictorLoadMisogyny(o)
    \/ InitializePredictorReturn
    \/ InitializePredictorExcept
    \/ ClientReceives
    \/ HealthCheck
    \/ \E data \in SingleInputs : AnalyzeSingleEnter(data)
    \/ \E o \in AllOutcomes : AnalyzeSingleCall(o)
    \/ \E data \in BatchInputs : AnalyzeBatchEnter(data)
    \/ \E o \in AllOutcomes, so \in StatisticsOutcomes : AnalyzeBatchCall(o, so)
    \/ \E data \in FilterInputs : FilterEnter(data)
    \/ \E o \in AllOutcomes : FilterCall(o)

Spec == Init /\ [][Next]_vars

NextMain ==
    \/ MainInitialize
    \/ \E o \in AdapterOutcomes : GetPredictorLoadHarassment(o)
    \/ \E o \in AdapterOutcomes : GetPredictorLoadMisogyny(o)
    \/ InitializePredictorReturn
    \/ InitializePredictorExcept
    \/ MainAfterInitialize
    \/ MainCreateApp
    \/ MainRun
    \/ ClientReceives
    \/ HealthCheck
    \/ \E data \in SingleInputs : AnalyzeSingleEnter(data)
    \/ \E o \in AllOutcomes : AnalyzeSingleCall(o)
    \/ \E data \in BatchInputs : AnalyzeBatchEnter(data)
    \/ \E o \in AllOutcomes, so \in StatisticsOutcomes : AnalyzeBatchCall(o, so)
    \/ \E data \in FilterInputs : FilterEnter(data)
    \/ \E o \in AllOutcomes : FilterCall(o)

SpecMain == InitMain /\ [][NextMain]_vars

(* ====================================================================== *)
(* Properties                                                              *)
(* ====================================================================== *)
Done(ep) == req.pc = "done" /\ req.endpoint = ep

\* An empty or whitespace-only string.
IsBlank(item) == item.kind = "str" /\ \A i \in 1..Len(item.val) : IsSpace(item.val[i])

HasTexts == req.data.has /\ req.data.is_list

ScoreKeys == {"harassment_score", "misogyny_score", "combined_toxicity_score",
              "is_harassment", "is_misogyny", "is_toxic", "risk_level",
              "results", "statistics", "filtered_results"}

\* The response carries no score, no results list and no statistics.
NoScores(r) ==
    /\ r.result = <<>> /\ r.results = <<>> /\ r.statistics = <<>>
    /\ r.filtered_results = <<>>
    /\ r.keys \cap ScoreKeys = {}

\* The request at hand (in flight or answered) has a blank text / blank item.
BlankRequest ==
    \/ /\ req.pc # "idle" /\ req.endpoint = "analyze"
       /\ req.data.has /\ IsBlank(req.data.text)
    \/ /\ req.pc # "idle" /\ req.endpoint = "batch" /\ HasTexts
       /\ \E i \in 1..Len(req.data.texts) : IsBlank(req.data.texts[i])

(* C1 as stated: a blank text, or a batch with a blank item at any          *)
(* position, is rejected with a validation error (400), the predictor is    *)
(* never invoked for it and the response carries no ScoreResult.            *)
C1_Original ==
    BlankRequest =>
        /\ req.pc = "done"
        /\ resp.status = 400
        /\ calls = <<>>
        /\ NoScores(resp)

(* C1 amended: a blank text, or a batch with a blank item at any position,  *)
(* is rejected with a validation error (400) when the handler found a       *)
(* predictor, and with the model-unavailable error (503) when it found      *)
(* none; in both cases the predictor is never invoked and the response      *)
(* carries no ScoreResult.                                                  *)
C1_BlankGate ==
    BlankRequest =>
        /\ req.pc = "done"
        /\ resp.status = (IF req.initialized THEN 400 ELSE 503)
        /\ calls = <<>>
        /\ NoScores(resp)

\* A batch of at least three texts whose last item alone is whitespace-only
\* was rejected by an initialized service.
C1_Witness ==
    /\ Done("batch") /\ HasTexts /\ req.initialized
    /\ Len(req.data.texts) >= 3
    /\ req.data.texts[Len(req.data.texts)] = Str(<<" ", "\t">>)
    /\ \A i \in 1..(Len(req.data.texts) - 1) : ~InvalidText(req.data.texts[i])
    /\ resp.status = 400
    /\ resp.error_index = Len(req.data.texts) - 1

\* Every item of the batch is a non-blank string.
AllScorable(texts) == \A i \in 1..Len(texts) : texts[i].kind = "str" /\ ~IsBlank(texts[i])

\* The i-th result is the score of the i-th text.
ResultsMatch(results, texts) ==
    /\ Len(results) = Len(texts)
    /\ \A i \in 1..Len(texts) :
          /\ results[i].text = texts[i].val
          /\ results[i].harassment_score = HarassmentScore(texts[i].val)
          /\ results[i].misogyny_score = MisogynyScore(texts[i].val)
          /\ results[i].combined_toxicity_score
                = Combined(HarassmentScore(texts[i].val), MisogynyScore(texts[i].val))

AllCallsReturned == \A i \in 1..Len(calls) : calls[i].outcome = "ok"

(* C2 as stated: a batch of more than 100 texts fails with a validation     *)
(* error and no results; a batch of n valid texts, 1 <= n <= 100, handled   *)
(* with a ready predictor succeeds with exactly n results, the i-th being   *)
(* the score of the i-th text.                                              *)
C2_Original ==
    (Done("batch") /\ HasTexts) =>
        /\ Len(req.data.texts) > 100 =>
              (resp.status = 400 /\ NoScores(resp))
        /\ ( /\ Len(req.data.texts) \in 1..100
             /\ AllScorable(req.data.texts)
             /\ resp.ready ) =>
              (resp.status = 200 /\ ResultsMatch(resp.results, req.data.texts))

(* C2 amended: with a predictor present, a batch of more than 100 texts     *)
(* fails with a validation error (503 when no predictor is present), the    *)
(* predictor is not invoked and no results are returned; a batch of n valid *)
(* texts, 1 <= n <= 100, handled with a ready predictor returns exactly n   *)
(* results in input order, the i-th being the score of the i-th text,       *)
(* provided every predictor call returns; if one raises, the answer is an   *)
(* internal error (500) without results.                                    *)
C2_BatchCap ==
    (Done("batch") /\ HasTexts) =>
        /\ Len(req.data.texts) > 100 =>
              /\ resp.status = (IF req.initialized THEN 400 ELSE 503)
              /\ calls = <<>>
              /\ NoScores(resp)
        /\ ( /\ Len(req.data.texts) \in 1..100
             /\ AllScorable(req.data.texts)
             /\ resp.ready ) =>
              IF AllCallsReturned
              THEN resp.status = 200 /\ ResultsMatch(resp.results, req.data.texts)
              ELSE resp.status = 500 /\ NoScores(resp)

\* A batch of exactly 100 valid texts was answered with 100 results.
C2_Witness ==
    /\ Done("batch") /\ HasTexts
    /\ Len(req.data.texts) = 100
    /\ resp.status = 200
    /\ Len(resp.results) = 100
    /\ resp.results[100].text = req.data.texts[100].val

(* C3 as stated: on every endpoint that scores a batch, predict_batch is    *)
(* only ever invoked on a sequence of at most 100 items, none of them       *)
(* empty, blank or a non-string.                                            *)
C3_Claim ==
    \A i \in 1..Len(calls) :
        calls[i].fn = "predict_batch" =>
            /\ Len(calls[i].texts) <= 100
            /\ AllScorable(calls[i].texts)

\* C3: a filter request with a blank item reached predict_batch.
C3_Reached ==
    /\ Done("filter")
    /\ Len(calls) = 1 /\ calls[1].fn = "predict_batch"
    /\ ~AllScorable(calls[1].texts)

\* The stub scores of the i-th text of the request.
TextScore(i, filter_type) ==
    LET h == HarassmentScore(req.data.texts[i].val)
        m == MisogynyScore(req.data.texts[i].val)
    IN IF filter_type = "all" THEN Combined(h, m)
       ELSE IF filter_type = "harassment" THEN h
       ELSE m

\* The i-th text (one-based) is reported in the filtered output.
Included(i) ==
    \E j \in 1..Len(resp.filtered_results) : resp.filtered_results[j].index = i - 1

FilterAnswered == Done("filter") /\ resp.status = 200

(* C4: in a filter answer, a text's result is included if and only if the   *)
(* score the criterion selects (all: combined, harassment: harassment,      *)
(* misogyny: misogyny) is >= the threshold; equality includes, and the      *)
(* other two scores play no part.                                           *)
C4_FilterSelection ==
    FilterAnswered =>
        /\ req.data.filter_type \in FilterTypes
        /\ req.data.threshold.val \in 0..100
        /\ \A i \in 1..Len(req.data.texts) :
              Included(i) <=> TextScore(i, req.data.filter_type) >= req.data.threshold.val

\* Criterion harassment, threshold 1.0: a text whose harassment score equals
\* the threshold is included although its other scores are below it, and a
\* text whose misogyny score meets the threshold is left out.
C4_Witness ==
    /\ FilterAnswered
    /\ req.data.filter_type = "harassment" /\ req.data.threshold.val = 100
    /\ \E i \in 1..Len(req.data.texts) :
          /\ Included(i)
          /\ TextScore(i, "harassment") = 100
          /\ TextScore(i, "misogyny") < 100 /\ TextScore(i, "all") < 100
    /\ \E i \in 1..Len(req.data.texts) :
          ~Included(i) /\ TextScore(i, "misogyny") >= 100

(* C5: the filtered output lists matches in input order with strictly       *)
(* increasing indices; each index is the zero-based position of the match   *)
(* in the request's texts and the match carries that text and its scores;   *)
(* toxic_comments is the number of matches and total_comments the number of *)
(* texts.                                                                   *)
C5_FilterOrder ==
    FilterAnswered =>
        LET f == resp.filtered_results
            n == Len(req.data.texts)
        IN /\ resp.total_comments = n
           /\ resp.toxic_comments = Len(f)
           /\ \A j \in 1..Len(f), k \in 1..Len(f) : j < k => f[j].index < f[k].index
           /\ \A j \in 1..Len(f) :
                 /\ f[j].index \in 0..(n - 1)
                 /\ f[j].text = req.data.texts[f[j].index + 1].val
                 /\ f[j].harassment_score = TextScore(f[j].index + 1, "harassment")
                 /\ f[j].misogyny_score = TextScore(f[j].index + 1, "misogyny")
                 /\ f[j].combined_toxicity_score = TextScore(f[j].index + 1, "all")

\* Some texts were left out: the first match is not the first text and two
\* successive matches are not neighbours in the input.
C5_Witness ==
    /\ FilterAnswered
    /\ Len(resp.filtered_results) >= 2
    /\ Len(resp.filtered_results) < Len(req.data.texts)
    /\ resp.filtered_results[1].index >= 1
    /\ resp.filtered_results[2].index > resp.filtered_results[1].index + 1

\* A filter request with a numeric threshold.
FilterRequest ==
    /\ req.pc # "idle" /\ req.endpoint = "filter"
    /\ req.data.threshold.kind = "num"

BadFilterArguments ==
    \/ req.data.threshold.val < 0
    \/ req.data.threshold.val > 100
    \/ req.data.filter_type \notin {"all", "harassment", "misogyny"}

\* Threshold 0.0 returns every scored item.
ZeroThresholdReturnsAll ==
    (FilterAnswered /\ req.data.threshold.val = 0) =>
        /\ Len(resp.filtered_results) = Len(req.data.texts)
        /\ \A j \in 1..Len(resp.filtered_results) : resp.filtered_results[j].index = j - 1

ScoringEndpoints == {"analyze", "batch", "filter"}

\* The request at hand passes the validation of its handler.
WellFormedRequest ==
    \/ req.endpoint = "analyze" /\ req.data.has
       /\ req.data.text.kind = "str" /\ ~IsBlank(req.data.text)
    \/ req.endpoint = "batch" /\ HasTexts
       /\ Len(req.data.texts) \in 1..100 /\ AllScorable(req.data.texts)
    \/ req.endpoint = "filter" /\ HasTexts
       /\ Len(req.data.texts) \in 1..100 /\ AllScorable(req.data.texts)
       /\ req.data.threshold.kind = "num" /\ ~BadFilterArguments

(* C7 as stated, for requests that are otherwise well formed: a scoring     *)
(* request answered while the service is not ready (health_check's          *)
(* models_loaded is false) fails with the model-unavailable outcome (503),  *)
(* the predictor is not invoked and no score is returned.                   *)
C7_Claim ==
    (req.pc = "done" /\ req.endpoint \in ScoringEndpoints /\ WellFormedRequest
        /\ ~resp.ready) =>
        /\ resp.status = 503
        /\ calls = <<>>
        /\ NoScores(resp)

\* C7: a request was passed to a predictor whose misogyny adapter failed.
C7_Reached ==
    /\ Done("analyze")
    /\ predictor.present /\ predictor.harassment = "loaded" /\ predictor.misogyny = "failed"
    /\ Len(calls) = 1 /\ ~calls[1].ready
    /\ resp.status = 500

(* C8: when a predictor call of the request raised, the answer is an error  *)
(* response with an error description and without scores, results or        *)
(* statistics; a 200 answer of a scoring endpoint is produced only when     *)
(* every predictor call of the request returned.                            *)
C8_NoDefaultScore ==
    (req.pc = "done" /\ req.endpoint \in ScoringEndpoints) =>
        /\ ~AllCallsReturned =>
              /\ resp.status = 500
              /\ "error" \in resp.keys /\ resp.error # ""
              /\ NoScores(resp)
        /\ resp.status = 200 => (calls # <<>> /\ AllCallsReturned)

\* predict_batch returned and get_batch_statistics raised: internal error.
C8_Witness ==
    /\ Done("batch")
    /\ Len(calls) = 2
    /\ calls[1].outcome = "ok" /\ calls[2].outcome = "InferenceError"
    /\ resp.status = 500 /\ resp.results = <<>>

\* The global is None or a predictor whose construction has finished.
PredictorObservable ==
    \/ predictor = NoPredictor
    \/ /\ Constructed(predictor)
       /\ predictor.models_loaded
             = (predictor.harassment = "loaded" /\ predictor.misogyny = "loaded")

\* initialize_predictor ends in its except branch.
InitializationFails == initPc # "idle" /\ initPc' = "idle" /\ initRaised'

====
